---- MODULE Spec2Model ----
(***************************************************************************)
(* Model of the newcert HTTP handler of cfssl (Handler.Handle and          *)
(* computeSum).  One run of Handle is a goroutine with its own locals      *)
(* (frame), its own response writer (w) and its own return value (ret);    *)
(* the Handler value h is shared by all runs.  The collaborators           *)
(* (csr.Generator, signer.Signer, bundler.Bundler, ocsp.Signer,            *)
(* certdb.Accessor) are external: each call returns a value or an error    *)
(* chosen nondeterministically from a bounded set.                         *)
(***************************************************************************)
EXTENDS Integers, Sequences, FiniteSets, TLC

VARIABLES h, body, ctx, frame, calls, w, ret,   \* Handler.Handle
          env,                                  \* what the collaborators may return
          sumIn, sumOut,                        \* a call of computeSum on its own
          collector, ch, received, receiver     \* a StatsCollector call and its channel

vars == <<h, body, ctx, frame, calls, w, ret, env, sumIn, sumOut,
          collector, ch, received, receiver>>

\* The variables no step of Handle touches.
sumVars == <<sumIn, sumOut>>

statsVars == <<collector, ch, received, receiver>>

notHandle == <<env, sumVars, statsVars>>

(***************************************************************************)
(* Bounds                                                                  *)
(***************************************************************************)
MaxHosts == 1       \* longest host list of a request
MaxItems == 2       \* longest input of computeSum, in PEM items
MaxDer == 1         \* distinct DER payloads
MaxSerial == 2      \* certificate serial numbers 1..MaxSerial
MaxTime == 2        \* seconds of a time.Time, 1..MaxTime

\* The goroutines that may run Handle on the one Handler.
Reqs == {"r1", "r2"}

(***************************************************************************)
(* Byte strings holding PEM.  A byte string is a sequence of items; an     *)
(* item is either text without PEM armor (type "none") or one PEM block    *)
(* with its type and a payload that is the DER of a CSR, the DER of a      *)
(* certificate, or bytes that are neither.                                 *)
(***************************************************************************)
BlockTypes == {"CERTIFICATE REQUEST", "CERTIFICATE", "PRIVATE KEY"}

Asn1Kinds == {"csr", "cert", "junk"}

Junk == [type |-> "none", asn1 |-> "junk", der |-> 1]

PemItems == {Junk} \cup [type : BlockTypes, asn1 : Asn1Kinds, der : 1..MaxDer]

RECURSIVE SeqsUpTo(_, _)
SeqsUpTo(S, n) ==
    IF n = 0 THEN {<<>>}
    ELSE LET shorter == SeqsUpTo(S, n - 1)
         IN  shorter \cup {Append(s, x) : s \in {t \in shorter : Len(t) = n - 1}, x \in S}

PemInputs == SeqsUpTo(PemItems, MaxItems)

\* pem.Decode: the index of the first PEM block of the input, 0 when the
\* input holds none (p == nil).
pemDecode(in) ==
    IF \E i \in 1..Len(in) : in[i].type # "none"
    THEN CHOOSE i \in 1..Len(in) :
            /\ in[i].type # "none"
            /\ \A j \in 1..(i - 1) : in[j].type = "none"
    ELSE 0

\* Toy digests of a DER payload, one byte wide, standing for md5.Sum,
\* sha1.Sum and sha256.Sum256.
md5Sum(der) == (der * 7 + 3) % 256
sha1Sum(der) == (der * 11 + 5) % 256
sha256Sum(der) == (der * 13 + 17) % 256

HexDigits == <<"0", "1", "2", "3", "4", "5", "6", "7",
               "8", "9", "A", "B", "C", "D", "E", "F">>

\* fmt.Sprintf("%X", b) of one byte.
SprintfX(b) == <<HexDigits[(b \div 16) + 1], HexDigits[(b % 16) + 1]>>

ZeroSum == [MD5 |-> <<>>, SHA1 |-> <<>>, SHA256 |-> <<>>]

\* computeSum that digests the payload of a block of any type.
computeSum_AnyType(in) ==
    LET i == pemDecode(in)
    IN  IF i = 0
        THEN [sum |-> ZeroSum, err |-> "BadRequest"]
        ELSE LET p == in[i]
                 digests == [MD5    |-> SprintfX(md5Sum(p.der)),
                             SHA1   |-> SprintfX(sha1Sum(p.der)),
                             SHA256 |-> SprintfX(sha256Sum(p.der))]
             IN  CASE p.type = "CERTIFICATE REQUEST" /\ p.asn1 # "csr" ->
                        [sum |-> ZeroSum, err |-> "x509"]
                   [] p.type = "CERTIFICATE" /\ p.asn1 # "cert" ->
                        [sum |-> ZeroSum, err |-> "x509"]
                   [] OTHER -> [sum |-> digests, err |-> "nil"]

\* computeSum: (sum, err).  err is "nil", "BadRequest" (errors.NewBadRequestString)
\* or "x509" (the parser's error, returned as is).
computeSum(in) ==
    LET i == pemDecode(in)
    IN  IF i = 0
        THEN [sum |-> ZeroSum, err |-> "BadRequest"]
        ELSE LET p == in[i]
                 digests == [MD5    |-> SprintfX(md5Sum(p.der)),
                             SHA1   |-> SprintfX(sha1Sum(p.der)),
                             SHA256 |-> SprintfX(sha256Sum(p.der))]
             IN  CASE p.type = "CERTIFICATE REQUEST" ->
                        IF p.asn1 = "csr"
                        THEN [sum |-> digests, err |-> "nil"]
                        ELSE [sum |-> ZeroSum, err |-> "x509"]
                   [] p.type = "CERTIFICATE" ->
                        IF p.asn1 = "cert"
                        THEN [sum |-> digests, err |-> "nil"]
                        ELSE [sum |-> ZeroSum, err |-> "x509"]
                   [] OTHER -> [sum |-> ZeroSum, err |-> "BadRequest"]

(***************************************************************************)
(* Values of the request and of the collaborators                          *)
(***************************************************************************)
Hostname == "example.com"

HostLists == SeqsUpTo({Hostname}, MaxHosts)

Profiles == {"", "default"}

Labels == {"primary"}

\* The JSON document of a request body.  request is the "request" key:
\* absent, null, or an object with an optional "ca" section and "hosts".
DefaultDoc ==
    [request |-> "absent", ca |-> FALSE, hosts |-> <<>>,
     profile |-> "", label |-> "primary", bundle |-> FALSE]

Docs ==
    {d \in [request : {"absent", "null", "present"}, ca : BOOLEAN, hosts : HostLists,
            profile : Profiles, label : Labels, bundle : BOOLEAN] :
        d.request # "present" => (d.ca = FALSE /\ d.hosts = <<>>)}

\* A request body: unreadable, readable but not JSON, or a JSON document.
Bodies ==
    {[read |-> "err", json |-> "invalid", doc |-> DefaultDoc],
     [read |-> "ok", json |-> "invalid", doc |-> DefaultDoc]}
    \cup [read : {"ok"}, json : {"valid"}, doc : Docs]

\* time.Time values and Time.Unix().
ZeroTime == [sec |-> 0, nsec |-> 0]

Times == [sec : 1..MaxTime, nsec : {0, 1}]

Unix(t) == t.sec

\* big.Int.String(): the decimal digits of n.
RECURSIVE String(_)
String(n) ==
    IF n < 10 THEN <<HexDigits[n + 1]>>
    ELSE String(n \div 10) \o <<HexDigits[(n % 10) + 1]>>

LowerHexDigits == <<"0", "1", "2", "3", "4", "5", "6", "7",
                    "8", "9", "a", "b", "c", "d", "e", "f">>

\* hex.EncodeToString of a byte sequence.
RECURSIVE EncodeToString(_)
EncodeToString(bs) ==
    IF bs = <<>> THEN <<>>
    ELSE <<LowerHexDigits[(Head(bs) \div 16) + 1], LowerHexDigits[(Head(bs) % 16) + 1]>>
         \o EncodeToString(Tail(bs))

AuthorityKeyIds == {<<171, 4>>}

\* x509.Certificate as far as Handle reads it.
ZeroCert == [SerialNumber |-> 0, AuthorityKeyId |-> <<>>]

Certs == [SerialNumber : 1..MaxSerial, AuthorityKeyId : AuthorityKeyIds]

\* *bundler.Bundle: nil, or a bundle with its leaf and expiry.
NilBundle == [isNil |-> TRUE, Cert |-> ZeroCert, Expires |-> ZeroTime]

Bundles == [isNil : {FALSE}, Cert : Certs, Expires : Times]

\* The bytes an ocsp.Signer returns: a well-formed OCSP response carrying
\* a next-update time, or bytes that do not parse.
NoOCSPResponse == [wellformed |-> FALSE, NextUpdate |-> ZeroTime]

OCSPResponses == {NoOCSPResponse} \cup [wellformed : {TRUE}, NextUpdate : Times]

\* stdocsp.ParseResponse: (parsed, err).
ParseResponse(bytes) ==
    IF bytes.wellformed
    THEN [NextUpdate |-> bytes.NextUpdate, err |-> "nil"]
    ELSE [NextUpdate |-> ZeroTime, err |-> "parse"]

KeyPEM == <<[type |-> "PRIVATE KEY", asn1 |-> "junk", der |-> 1]>>

\* What a collaborator may hand back as PEM bytes.
CollaboratorPems == {in \in PemInputs : Len(in) <= 1}

\* The collaborators without any restriction on what they return: the CSR
\* generator, the signer, the bundler and the OCSP signer.
AnyEnv ==
    [csrs |-> CollaboratorPems, certs |-> CollaboratorPems,
     bundles |-> Bundles \cup {NilBundle}, ocsps |-> OCSPResponses]

CSRNoHostMessage == "This certificate lacks a \"hosts\" field."

PolicyErrorInvalidRequest == [category |-> "PolicyError", reason |-> "InvalidRequest"]

NoErrorCode == [category |-> "", reason |-> ""]

(***************************************************************************)
(* Locals of one run of Handle                                             *)
(***************************************************************************)
\* csr.New(): a non-nil request without CA section and without hosts.
csrNew == [isNil |-> FALSE, CA |-> FALSE, Hosts |-> <<>>]

\* newCertRequest{} with Request = csr.New().
newCertRequest == [Request |-> csrNew, Profile |-> "", Label |-> "", Bundle |-> FALSE]

\* json.Unmarshal(body, &newCert): a key that is absent leaves its field
\* alone, "request": null sets the pointer to nil, an object fills it.
Unmarshal(doc, v) ==
    [Request |-> CASE doc.request = "absent" -> v.Request
                   [] doc.request = "null" -> [isNil |-> TRUE, CA |-> FALSE, Hosts |-> <<>>]
                   [] OTHER -> [isNil |-> FALSE, CA |-> doc.ca, Hosts |-> doc.hosts],
     Profile |-> doc.profile,
     Label |-> doc.label,
     Bundle |-> doc.bundle]

ZeroSignRequest == [Request |-> <<>>, Profile |-> "", Label |-> ""]

ZeroOCSPRecord == [Serial |-> <<>>, AKI |-> <<>>, Body |-> NoOCSPResponse, Expiry |-> ZeroTime]

ZeroResult ==
    [private_key |-> <<>>, certificate_request |-> <<>>, certificate |-> <<>>,
     serial_number |-> <<>>, expiration |-> 0,
     sums |-> [certificate_request |-> ZeroSum, certificate |-> ZeroSum]]

NoBundleArgs == [certsRaw |-> <<>>, keyPEM |-> <<>>, flavor |-> "", password |-> ""]

NewFrame(start) ==
    [pc |-> start, newCert |-> newCertRequest,
     csr |-> <<>>, key |-> <<>>, signReq |-> ZeroSignRequest, certBytes |-> <<>>,
     reqSum |-> ZeroSum, certSum |-> ZeroSum,
     bundleArgs |-> NoBundleArgs, bundle |-> NilBundle,
     ocspReq |-> [Certificate |-> ZeroCert, Status |-> ""],
     ocspResponse |-> NoOCSPResponse, ocspParsed |-> ZeroTime,
     ocspRecord |-> ZeroOCSPRecord]

\* Nothing written to the http.ResponseWriter yet.
NoResponse ==
    [status |-> "none", result |-> ZeroResult, message |-> "", code |-> NoErrorCode]

\* Handle has not returned.
NotReturned == [returned |-> FALSE, err |-> "nil", at |-> ""]

\* The request context: live, or cancelled; beforeSign tells whether the
\* cancellation came before the run invoked Signer.Sign.
LiveCtx == [cancelled |-> FALSE, beforeSign |-> FALSE]

(***************************************************************************)
(* Handler.Handle, one action per step                                     *)
(***************************************************************************)
pcOf(r) == frame[r].pc

Running(r) == pcOf(r) \notin {"idle", "done"}

\* return err: Handle ends without writing a response of its own.
Return(r, err) ==
    /\ ret' = [ret EXCEPT ![r] = [returned |-> TRUE, err |-> err, at |-> pcOf(r)]]
    /\ frame' = [frame EXCEPT ![r].pc = "done"]

Goto(r, pc) == frame' = [frame EXCEPT ![r].pc = pc]

\* One more entry of the run's log of calls: the operation and whether it
\* returned without error.
Call(r, op, ok) == calls' = [calls EXCEPT ![r] = Append(@, [op |-> op, ok |-> ok])]

\* body, err := io.ReadAll(r.Body)
ReadBody(r) ==
    /\ pcOf(r) = "read"
    /\ IF body[r].read = "err"
       THEN Return(r, "NewBadRequest")
       ELSE Goto(r, "unmarshal") /\ UNCHANGED ret
    /\ UNCHANGED <<notHandle, h, body, ctx, calls, w>>

\* err = json.Unmarshal(body, &newCert)
UnmarshalBody(r) ==
    /\ pcOf(r) = "unmarshal"
    /\ IF body[r].json = "invalid"
       THEN Return(r, "NewBadRequest")
       ELSE /\ frame' = [frame EXCEPT ![r] =
                    [@ EXCEPT !.pc = "checkRequest",
                              !.newCert = Unmarshal(body[r].doc, @)]]
            /\ UNCHANGED ret
    /\ UNCHANGED <<notHandle, h, body, ctx, calls, w>>

\* if newCert.Request == nil
CheckRequest(r) ==
    /\ pcOf(r) = "checkRequest"
    /\ IF frame[r].newCert.Request.isNil
       THEN Return(r, "NewBadRequestString")
       ELSE Goto(r, "checkCA") /\ UNCHANGED ret
    /\ UNCHANGED <<notHandle, h, body, ctx, calls, w>>

\* CheckCA without the guard.
CheckCA_NoGuard(r) ==
    /\ pcOf(r) = "checkCA"
    /\ Goto(r, "processRequest")
    /\ UNCHANGED <<notHandle, h, body, ctx, calls, w, ret>>

\* if newCert.Request.CA != nil
CheckCA(r) ==
    /\ pcOf(r) = "checkCA"
    /\ IF frame[r].newCert.Request.CA
       THEN Return(r, "NewBadRequestString")
       ELSE Goto(r, "processRequest") /\ UNCHANGED ret
    /\ UNCHANGED <<notHandle, h, body, ctx, calls, w>>

\* csr, key, err := h.csrGen.ProcessRequest(newCert.Request)
ProcessRequest(r) ==
    /\ pcOf(r) = "processRequest"
    /\ \/ Return(r, "ProcessRequest") /\ Call(r, "ProcessRequest", FALSE)
       \/ /\ Call(r, "ProcessRequest", TRUE)
          /\ \E c \in env.csrs :
                frame' = [frame EXCEPT ![r] =
                    [@ EXCEPT !.pc = "sign", !.csr = c, !.key = KeyPEM]]
          /\ UNCHANGED ret
    /\ UNCHANGED <<notHandle, h, body, ctx, w>>

\* Sign retried after an error of the signer.
Sign_Retry(r) ==
    /\ pcOf(r) = "sign"
    /\ LET signReq == [Request |-> frame[r].csr,
                       Profile |-> frame[r].newCert.Profile,
                       Label |-> frame[r].newCert.Label]
       IN  \/ /\ Call(r, "Sign", FALSE)
              /\ frame' = [frame EXCEPT ![r] = [@ EXCEPT !.signReq = signReq]]
           \/ /\ Call(r, "Sign", TRUE)
              /\ \E c \in env.certs :
                    frame' = [frame EXCEPT ![r] =
                        [@ EXCEPT !.pc = "reqSum", !.signReq = signReq, !.certBytes = c]]
    /\ UNCHANGED <<notHandle, h, body, ctx, w, ret>>

\* Sign followed at once by the bundler, the fingerprints forgotten.
Sign_ThenBundle(r) ==
    /\ pcOf(r) = "sign"
    /\ LET signReq == [Request |-> frame[r].csr,
                       Profile |-> frame[r].newCert.Profile,
                       Label |-> frame[r].newCert.Label]
       IN  \/ /\ Call(r, "Sign", FALSE)
              /\ ret' = [ret EXCEPT ![r] = [returned |-> TRUE, err |-> "Sign", at |-> "sign"]]
              /\ frame' = [frame EXCEPT ![r] = [@ EXCEPT !.pc = "done", !.signReq = signReq]]
           \/ /\ Call(r, "Sign", TRUE)
              /\ \E c \in env.certs :
                    frame' = [frame EXCEPT ![r] =
                        [@ EXCEPT !.pc = "bundle", !.signReq = signReq, !.certBytes = c]]
              /\ UNCHANGED ret
    /\ UNCHANGED <<notHandle, h, body, ctx, w>>

\* Sign guarded by the request context.
Sign_HonourCancel(r) ==
    /\ pcOf(r) = "sign"
    /\ IF ctx[r].cancelled
       THEN Return(r, "context canceled") /\ UNCHANGED calls
       ELSE /\ Call(r, "Sign", TRUE)
            /\ \E c \in env.certs :
                    frame' = [frame EXCEPT ![r] =
                        [@ EXCEPT !.pc = "reqSum", !.certBytes = c]]
            /\ UNCHANGED ret
    /\ UNCHANGED <<notHandle, h, body, ctx, w>>

\* signReq := signer.SignRequest{...}; certBytes, err := h.signer.Sign(signReq)
Sign(r) ==
    /\ pcOf(r) = "sign"
    /\ LET signReq == [Request |-> frame[r].csr,
                       Profile |-> frame[r].newCert.Profile,
                       Label |-> frame[r].newCert.Label]
       IN  \/ /\ Call(r, "Sign", FALSE)
              /\ ret' = [ret EXCEPT ![r] = [returned |-> TRUE, err |-> "Sign", at |-> "sign"]]
              /\ frame' = [frame EXCEPT ![r] = [@ EXCEPT !.pc = "done", !.signReq = signReq]]
           \/ /\ Call(r, "Sign", TRUE)
              /\ \E c \in env.certs :
                    frame' = [frame EXCEPT ![r] =
                        [@ EXCEPT !.pc = "reqSum", !.signReq = signReq, !.certBytes = c]]
              /\ UNCHANGED ret
    /\ UNCHANGED <<notHandle, h, body, ctx, w>>

\* reqSum, err := computeSum(csr)
SumRequest(r) ==
    /\ pcOf(r) = "reqSum"
    /\ LET got == computeSum(frame[r].csr)
       IN  IF got.err # "nil"
           THEN Return(r, "NewBadRequest")
           ELSE /\ frame' = [frame EXCEPT ![r] =
                        [@ EXCEPT !.pc = "certSum", !.reqSum = got.sum]]
                /\ UNCHANGED ret
    /\ Call(r, "computeSum(csr)", computeSum(frame[r].csr).err = "nil")
    /\ UNCHANGED <<notHandle, h, body, ctx, w>>

\* SumCert with the error of computeSum dropped.
SumCert_IgnoreError(r) ==
    /\ pcOf(r) = "certSum"
    /\ frame' = [frame EXCEPT ![r] =
            [@ EXCEPT !.pc = "bundle", !.certSum = computeSum(frame[r].certBytes).sum]]
    /\ Call(r, "computeSum(certBytes)", computeSum(frame[r].certBytes).err = "nil")
    /\ UNCHANGED <<notHandle, h, body, ctx, w, ret>>

\* certSum, err := computeSum(certBytes)
SumCert(r) ==
    /\ pcOf(r) = "certSum"
    /\ LET got == computeSum(frame[r].certBytes)
       IN  IF got.err # "nil"
           THEN Return(r, "NewBadRequest")
           ELSE /\ frame' = [frame EXCEPT ![r] =
                        [@ EXCEPT !.pc = "bundle", !.certSum = got.sum]]
                /\ UNCHANGED ret
    /\ Call(r, "computeSum(certBytes)", computeSum(frame[r].certBytes).err = "nil")
    /\ UNCHANGED <<notHandle, h, body, ctx, w>>

\* The arguments of BundleFromPEMorDER: (certBytes, nil, bundler.Optimal, "").
BundleArgs(f) ==
    [certsRaw |-> f.certBytes, keyPEM |-> <<>>, flavor |-> "Optimal", password |-> ""]

\* Bundle that asks the bundler only when the request sets its bundle flag.
Bundle_OnlyWhenAsked(r) ==
    /\ pcOf(r) = "bundle"
    /\ IF frame[r].newCert.Bundle
       THEN /\ Call(r, "BundleFromPEMorDER", TRUE)
            /\ \E b \in env.bundles :
                    frame' = [frame EXCEPT ![r] =
                        [@ EXCEPT !.pc = "checkBundle", !.bundleArgs = BundleArgs(frame[r]),
                                  !.bundle = b]]
       ELSE Goto(r, "checkBundle") /\ UNCHANGED calls
    /\ UNCHANGED <<notHandle, h, body, ctx, w, ret>>

\* bundle, err := h.bundler.BundleFromPEMorDER(certBytes, nil, bundler.Optimal, "")
Bundle(r) ==
    /\ pcOf(r) = "bundle"
    /\ \/ /\ Call(r, "BundleFromPEMorDER", FALSE)
          /\ ret' = [ret EXCEPT ![r] =
                [returned |-> TRUE, err |-> "BundleFromPEMorDER", at |-> "bundle"]]
          /\ frame' = [frame EXCEPT ![r] =
                [@ EXCEPT !.pc = "done", !.bundleArgs = BundleArgs(frame[r])]]
       \/ /\ Call(r, "BundleFromPEMorDER", TRUE)
          /\ \E b \in env.bundles :
                frame' = [frame EXCEPT ![r] =
                    [@ EXCEPT !.pc = "checkBundle", !.bundleArgs = BundleArgs(frame[r]),
                              !.bundle = b]]
          /\ UNCHANGED ret
    /\ UNCHANGED <<notHandle, h, body, ctx, w>>

\* CheckBundle without the nil test.
CheckBundle_NoNilCheck(r) ==
    /\ pcOf(r) = "checkBundle"
    /\ Goto(r, "ocspGate")
    /\ UNCHANGED <<notHandle, h, body, ctx, calls, w, ret>>

\* if bundle == nil
CheckBundle(r) ==
    /\ pcOf(r) = "checkBundle"
    /\ IF frame[r].bundle.isNil
       THEN Return(r, "fmt.Errorf")
       ELSE Goto(r, "ocspGate") /\ UNCHANGED ret
    /\ UNCHANGED <<notHandle, h, body, ctx, calls, w>>

\* OCSPGate without the nil test.
OCSPGate_Always(r) ==
    /\ pcOf(r) = "ocspGate"
    /\ Goto(r, "ocspSign")
    /\ UNCHANGED <<notHandle, h, body, ctx, calls, w, ret>>

\* if h.ocspSigner != nil
OCSPGate(r) ==
    /\ pcOf(r) = "ocspGate"
    /\ IF h.ocspSigner THEN Goto(r, "ocspSign") ELSE Goto(r, "respond")
    /\ UNCHANGED <<notHandle, h, body, ctx, calls, w, ret>>

\* OCSPSign with a failed attestation degraded to a response without one.
OCSPSign_Degrade(r) ==
    /\ pcOf(r) = "ocspSign"
    /\ LET ocspReq == [Certificate |-> frame[r].bundle.Cert, Status |-> "good"]
       IN  \/ /\ Call(r, "ocspSigner.Sign", FALSE)
              /\ frame' = [frame EXCEPT ![r] = [@ EXCEPT !.pc = "respond", !.ocspReq = ocspReq]]
           \/ /\ Call(r, "ocspSigner.Sign", TRUE)
              /\ \E resp \in env.ocsps :
                    frame' = [frame EXCEPT ![r] =
                        [@ EXCEPT !.pc = "ocspParse", !.ocspReq = ocspReq,
                                  !.ocspResponse = resp]]
    /\ UNCHANGED <<notHandle, h, body, ctx, w, ret>>

\* OCSPSign that drops the Handler's OCSP signer once it has failed.
OCSPSign_DropSigner(r) ==
    /\ pcOf(r) = "ocspSign"
    /\ LET ocspReq == [Certificate |-> frame[r].bundle.Cert, Status |-> "good"]
       IN  \/ /\ Call(r, "ocspSigner.Sign", FALSE)
              /\ ret' = [ret EXCEPT ![r] =
                    [returned |-> TRUE, err |-> "ocspSigner.Sign", at |-> "ocspSign"]]
              /\ frame' = [frame EXCEPT ![r] = [@ EXCEPT !.pc = "done", !.ocspReq = ocspReq]]
              /\ h' = [h EXCEPT !.ocspSigner = FALSE]
           \/ /\ Call(r, "ocspSigner.Sign", TRUE)
              /\ \E resp \in env.ocsps :
                    frame' = [frame EXCEPT ![r] =
                        [@ EXCEPT !.pc = "ocspParse", !.ocspReq = ocspReq,
                                  !.ocspResponse = resp]]
              /\ UNCHANGED <<ret, h>>
    /\ UNCHANGED <<notHandle, body, ctx, w>>

\* ocspReq := ocsp.SignRequest{...}; ocspResponse, err := h.ocspSigner.Sign(ocspReq)
OCSPSign(r) ==
    /\ pcOf(r) = "ocspSign"
    /\ LET ocspReq == [Certificate |-> frame[r].bundle.Cert, Status |-> "good"]
       IN  \/ /\ Call(r, "ocspSigner.Sign", FALSE)
              /\ ret' = [ret EXCEPT ![r] =
                    [returned |-> TRUE, err |-> "ocspSigner.Sign", at |-> "ocspSign"]]
              /\ frame' = [frame EXCEPT ![r] = [@ EXCEPT !.pc = "done", !.ocspReq = ocspReq]]
           \/ /\ Call(r, "ocspSigner.Sign", TRUE)
              /\ \E resp \in env.ocsps :
                    frame' = [frame EXCEPT ![r] =
                        [@ EXCEPT !.pc = "ocspParse", !.ocspReq = ocspReq,
                                  !.ocspResponse = resp]]
              /\ UNCHANGED ret
    /\ UNCHANGED <<notHandle, h, body, ctx, w>>

\* OCSPParse with the parse error wrapped as a bad request.
OCSPParse_BadRequest(r) ==
    /\ pcOf(r) = "ocspParse"
    /\ Call(r, "ParseResponse", ParseResponse(frame[r].ocspResponse).err = "nil")
    /\ LET got == ParseResponse(frame[r].ocspResponse)
       IN  IF got.err # "nil"
           THEN Return(r, "NewBadRequest")
           ELSE /\ frame' = [frame EXCEPT ![r] =
                        [@ EXCEPT !.pc = "insertOCSP", !.ocspParsed = got.NextUpdate]]
                /\ UNCHANGED ret
    /\ UNCHANGED <<notHandle, h, body, ctx, w>>

\* OCSPParse with the parse error dropped.
OCSPParse_IgnoreError(r) ==
    /\ pcOf(r) = "ocspParse"
    /\ Call(r, "ParseResponse", ParseResponse(frame[r].ocspResponse).err = "nil")
    /\ frame' = [frame EXCEPT ![r] =
            [@ EXCEPT !.pc = "insertOCSP",
                      !.ocspParsed = ParseResponse(frame[r].ocspResponse).NextUpdate]]
    /\ UNCHANGED <<notHandle, h, body, ctx, w, ret>>

\* ocspParsed, err := stdocsp.ParseResponse(ocspResponse, nil)
OCSPParse(r) ==
    /\ pcOf(r) = "ocspParse"
    /\ Call(r, "ParseResponse", ParseResponse(frame[r].ocspResponse).err = "nil")
    /\ LET got == ParseResponse(frame[r].ocspResponse)
       IN  IF got.err # "nil"
           THEN Return(r, "ParseResponse")
           ELSE /\ frame' = [frame EXCEPT ![r] =
                        [@ EXCEPT !.pc = "insertOCSP", !.ocspParsed = got.NextUpdate]]
                /\ UNCHANGED ret
    /\ UNCHANGED <<notHandle, h, body, ctx, w>>

\* OCSPRecord with the expiry of the bundle as its Expiry.
OCSPRecord_BundleExpiry(f) ==
    [Serial |-> String(f.bundle.Cert.SerialNumber),
     AKI    |-> EncodeToString(f.bundle.Cert.AuthorityKeyId),
     Body   |-> f.ocspResponse,
     Expiry |-> f.bundle.Expires]

\* ocspRecord := certdb.OCSPRecord{...}
OCSPRecord(f) ==
    [Serial |-> String(f.bundle.Cert.SerialNumber),
     AKI    |-> EncodeToString(f.bundle.Cert.AuthorityKeyId),
     Body   |-> f.ocspResponse,
     Expiry |-> f.ocspParsed]

\* InsertOCSP with the error of the insert logged and dropped.
InsertOCSP_IgnoreError(r) ==
    /\ pcOf(r) = "insertOCSP"
    /\ \E ok \in BOOLEAN :
        calls' = [calls EXCEPT ![r] =
            @ \o <<[op |-> "GetDBAccessor", ok |-> TRUE], [op |-> "InsertOCSP", ok |-> ok]>>]
    /\ frame' = [frame EXCEPT ![r] =
            [@ EXCEPT !.pc = "respond", !.ocspRecord = OCSPRecord(frame[r])]]
    /\ UNCHANGED <<notHandle, h, body, ctx, w, ret>>

\* dbAccessor := h.signer.GetDBAccessor(); err := dbAccessor.InsertOCSP(ocspRecord)
InsertOCSP(r) ==
    /\ pcOf(r) = "insertOCSP"
    /\ \/ /\ calls' = [calls EXCEPT ![r] =
                @ \o <<[op |-> "GetDBAccessor", ok |-> TRUE], [op |-> "InsertOCSP", ok |-> FALSE]>>]
          /\ ret' = [ret EXCEPT ![r] =
                [returned |-> TRUE, err |-> "InsertOCSP", at |-> "insertOCSP"]]
          /\ frame' = [frame EXCEPT ![r] =
                [@ EXCEPT !.pc = "done", !.ocspRecord = OCSPRecord(frame[r])]]
       \/ /\ calls' = [calls EXCEPT ![r] =
                @ \o <<[op |-> "GetDBAccessor", ok |-> TRUE], [op |-> "InsertOCSP", ok |-> TRUE]>>]
          /\ frame' = [frame EXCEPT ![r] =
                [@ EXCEPT !.pc = "respond", !.ocspRecord = OCSPRecord(frame[r])]]
          /\ UNCHANGED ret
    /\ UNCHANGED <<notHandle, h, body, ctx, w>>

\* Expiration taken from the OCSP response when one was parsed.
Expiration_NextUpdate(f) ==
    IF f.ocspParsed # ZeroTime THEN Unix(f.ocspParsed) ELSE Unix(f.bundle.Expires)

\* "expiration": bundle.Expires.Unix()
Expiration(f) == Unix(f.bundle.Expires)

\* result := map[string]interface{}{...}
Result(f) ==
    [private_key         |-> f.key,
     certificate_request |-> f.csr,
     certificate         |-> f.certBytes,
     serial_number       |-> String(f.bundle.Cert.SerialNumber),
     expiration          |-> Expiration(f),
     sums                |-> [certificate_request |-> f.reqSum,
                              certificate         |-> f.certSum]]

\* Response without the advisory.
Response_NoAdvisory(f) ==
    [status |-> "success", result |-> Result(f), message |-> "", code |-> NoErrorCode]

\* The response Handle sends: api.SendResponseWithMessage with the advisory
\* when the request names no host, api.SendResponse otherwise.
Response(f) ==
    IF Len(f.newCert.Request.Hosts) = 0
    THEN [status |-> "success", result |-> Result(f),
          message |-> CSRNoHostMessage, code |-> PolicyErrorInvalidRequest]
    ELSE [status |-> "success", result |-> Result(f),
          message |-> "", code |-> NoErrorCode]

SendResponse(r) ==
    /\ pcOf(r) = "respond"
    /\ w' = [w EXCEPT ![r] = Response(frame[r])]
    /\ Call(r, IF Len(frame[r].newCert.Request.Hosts) = 0
               THEN "SendResponseWithMessage" ELSE "SendResponse", TRUE)
    /\ ret' = [ret EXCEPT ![r] = [returned |-> TRUE, err |-> "nil", at |-> "respond"]]
    /\ frame' = [frame EXCEPT ![r].pc = "done"]
    /\ UNCHANGED <<notHandle, h, body, ctx>>

\* The client goes away or the server shuts down: r.Context() is cancelled.
\* Handle never reads r.Context(), so nothing else changes.
Cancel(r) ==
    /\ Running(r)
    /\ ~ctx[r].cancelled
    /\ ctx' = [ctx EXCEPT ![r] =
            [cancelled |-> TRUE,
             beforeSign |-> \A i \in 1..Len(calls[r]) : calls[r][i].op # "Sign"]]
    /\ UNCHANGED <<notHandle, h, body, frame, calls, w, ret>>

Step(r) ==
    \/ ReadBody(r)
    \/ UnmarshalBody(r)
    \/ CheckRequest(r)
    \/ CheckCA(r)
    \/ ProcessRequest(r)
    \/ Sign(r)
    \/ SumRequest(r)
    \/ SumCert(r)
    \/ Bundle(r)
    \/ CheckBundle(r)
    \/ OCSPGate(r)
    \/ OCSPSign(r)
    \/ OCSPParse(r)
    \/ InsertOCSP(r)
    \/ SendResponse(r)

(***************************************************************************)
(* computeSum called on its own                                            *)
(***************************************************************************)
handleVars == <<h, body, ctx, frame, calls, w, ret>>

SumNotCalled == [called |-> FALSE, sum |-> ZeroSum, err |-> "nil"]

\* sum, err := computeSum(sumIn)
ComputeSumCall ==
    /\ ~sumOut.called
    /\ sumOut' = [called |-> TRUE, sum |-> computeSum(sumIn).sum, err |-> computeSum(sumIn).err]
    /\ UNCHANGED <<sumIn, handleVars, env, statsVars>>

(***************************************************************************)
(* dbmetrics.StatsCollector: Describe and Collect on a channel             *)
(***************************************************************************)
MaxCap == 2         \* largest capacity of the channel handed to Describe or Collect
MaxStat == 1        \* snapshots of the pool's statistics, 0..MaxStat

\* The descriptors in the order Describe sends them.
DescOrder ==
    <<"maxOpenDesc", "openDesc", "inUseDesc", "idleDesc", "waitedForDesc",
      "blockedSecondsDesc", "closedMaxIdleDesc", "closedMaxLifetimeDesc">>

\* sql.DBStats as the Statser may return it; WaitDuration in milliseconds.
DBStatsOf(k) ==
    [MaxOpenConnections |-> 10 + k, OpenConnections |-> 5 + k, InUse |-> 3 + k,
     Idle |-> 2 + k, WaitCount |-> 7 + k, WaitDuration |-> (1 + k) * 1500,
     MaxIdleClosed |-> 4 + k, MaxLifetimeClosed |-> 6 + k]

DBStatsValues == {DBStatsOf(k) : k \in 0..MaxStat}

ZeroDBStats ==
    [MaxOpenConnections |-> 0, OpenConnections |-> 0, InUse |-> 0, Idle |-> 0,
     WaitCount |-> 0, WaitDuration |-> 0, MaxIdleClosed |-> 0, MaxLifetimeClosed |-> 0]

\* float64(n) of an integer and Duration.Seconds(), as the whole part and
\* the thousandths beyond it.
float64(n) == [whole |-> n, frac |-> 0]

Seconds(d) == [whole |-> d \div 1000, frac |-> d % 1000]

ConstMetric(desc, valueType, value) ==
    [desc |-> desc, valueType |-> valueType, value |-> value]

\* The metrics in the order Collect sends them.
Metrics(stats) ==
    <<ConstMetric("maxOpenDesc", "GaugeValue", float64(stats.MaxOpenConnections)),
      ConstMetric("openDesc", "GaugeValue", float64(stats.OpenConnections)),
      ConstMetric("inUseDesc", "GaugeValue", float64(stats.InUse)),
      ConstMetric("idleDesc", "GaugeValue", float64(stats.Idle)),
      ConstMetric("waitedForDesc", "CounterValue", float64(stats.WaitCount)),
      ConstMetric("blockedSecondsDesc", "CounterValue", Seconds(stats.WaitDuration)),
      ConstMetric("closedMaxIdleDesc", "CounterValue", float64(stats.MaxIdleClosed)),
      ConstMetric("closedMaxLifetimeDesc", "CounterValue", float64(stats.MaxLifetimeClosed))>>

\* The collector before any call, and at the entry of Describe or Collect.
NewCollector(op) ==
    [op |-> op,
     pc |-> CASE op = "Describe" -> "send" [] op = "Collect" -> "stats" [] OTHER -> "idle",
     sent |-> 0, reads |-> 0, stats |-> ZeroDBStats]

\* A send that gives up instead of blocking (select with a default case).
ChanSend_Drop(item) ==
    \/ /\ Len(ch.buf) < ch.cap
       /\ ch' = [ch EXCEPT !.buf = Append(@, item)]
       /\ UNCHANGED received
    \/ /\ ch.cap = 0
       /\ receiver = "receiving"
       /\ received' = Append(received, item)
       /\ UNCHANGED ch
    \/ /\ Len(ch.buf) >= ch.cap
       /\ UNCHANGED <<ch, received>>

\* ch <- item: into the buffer when it has room; on an unbuffered channel
\* straight to a receiver that is receiving.  Blocked otherwise.
ChanSend(item) ==
    \/ /\ Len(ch.buf) < ch.cap
       /\ ch' = [ch EXCEPT !.buf = Append(@, item)]
       /\ UNCHANGED received
    \/ /\ ch.cap = 0
       /\ receiver = "receiving"
       /\ received' = Append(received, item)
       /\ UNCHANGED ch

\* One send of Describe.
Describe ==
    /\ collector.op = "Describe"
    /\ collector.pc = "send"
    /\ ChanSend(DescOrder[collector.sent + 1])
    /\ collector' = [collector EXCEPT
            !.sent = @ + 1,
            !.pc = IF collector.sent + 1 = Len(DescOrder) THEN "done" ELSE "send"]
    /\ UNCHANGED <<receiver, handleVars, env, sumVars>>

\* stats := c.s.Stats()
CollectStats ==
    /\ collector.op = "Collect"
    /\ collector.pc = "stats"
    /\ \E st \in DBStatsValues :
            collector' = [collector EXCEPT !.pc = "send", !.reads = @ + 1, !.stats = st]
    /\ UNCHANGED <<ch, received, receiver, handleVars, env, sumVars>>

\* One send of Collect.
Collect ==
    /\ collector.op = "Collect"
    /\ collector.pc = "send"
    /\ ChanSend(Metrics(collector.stats)[collector.sent + 1])
    /\ collector' = [collector EXCEPT
            !.sent = @ + 1,
            !.pc = IF collector.sent + 1 = Len(Metrics(collector.stats)) THEN "done" ELSE "send"]
    /\ UNCHANGED <<receiver, handleVars, env, sumVars>>

\* The receiver of the channel takes the oldest buffered item.
Receive ==
    /\ receiver = "receiving"
    /\ ch.buf # <<>>
    /\ received' = Append(received, Head(ch.buf))
    /\ ch' = [ch EXCEPT !.buf = Tail(@)]
    /\ UNCHANGED <<collector, receiver, handleVars, env, sumVars>>

\* The receiver stops receiving.
ReceiverStop ==
    /\ receiver = "receiving"
    /\ receiver' = "stopped"
    /\ UNCHANGED <<collector, ch, received, handleVars, env, sumVars>>

(***************************************************************************)
(* Specifications                                                          *)
(***************************************************************************)
\* NewHandler: the Handler with or without an OCSP signer.
NewHandler(ocspSigner) == [ocspSigner |-> ocspSigner]

IdleBody == [read |-> "err", json |-> "invalid", doc |-> DefaultDoc]

\* No call of computeSum on its own and no StatsCollector call under way.
SumIdle == sumIn = <<>> /\ sumOut = SumNotCalled

StatsIdle ==
    /\ collector = NewCollector("idle")
    /\ ch = [cap |-> 0, buf |-> <<>>]
    /\ received = <<>>
    /\ receiver = "stopped"

\* The runs of Handle: started[r] tells which goroutines serve a request.
HandleInit(started, bodies) ==
    /\ body = bodies
    /\ ctx = [r \in Reqs |-> LiveCtx]
    /\ frame = [r \in Reqs |-> NewFrame(IF r \in started THEN "read" ELSE "idle")]
    /\ calls = [r \in Reqs |-> <<>>]
    /\ w = [r \in Reqs |-> NoResponse]
    /\ ret = [r \in Reqs |-> NotReturned]

\* One request served by a Handler.
Init ==
    /\ \E o \in BOOLEAN : h = NewHandler(o)
    /\ \E b \in Bodies : HandleInit({"r1"}, [r \in Reqs |-> IF r = "r1" THEN b ELSE IdleBody])
    /\ env = AnyEnv
    /\ SumIdle
    /\ StatsIdle

Next ==
    \/ \E r \in Reqs : Step(r)
    \/ \E r \in Reqs : Cancel(r)

Spec == Init /\ [][Next]_vars

\* Two requests served concurrently by one Handler, each with a well-formed
\* body of its own, by collaborators that return well-formed values or fail.
ConcBodies ==
    {b \in Bodies : /\ b.json = "valid"
                    /\ b.doc.request = "present"
                    /\ ~b.doc.ca
                    /\ b.doc.profile = "default"
                    /\ ~b.doc.bundle}

ConcEnv ==
    [csrs |-> {<<[type |-> "CERTIFICATE REQUEST", asn1 |-> "csr", der |-> 1]>>},
     certs |-> {<<[type |-> "CERTIFICATE", asn1 |-> "cert", der |-> 1]>>},
     bundles |-> {b \in Bundles : b.Expires = [sec |-> MaxTime, nsec |-> 0]},
     ocsps |-> {o \in OCSPResponses : o.NextUpdate.sec \in {0, 1} /\ o.NextUpdate.nsec = 0}]

InitConc ==
    /\ \E o \in BOOLEAN : h = NewHandler(o)
    /\ \E bodies \in [Reqs -> ConcBodies] : HandleInit(Reqs, bodies)
    /\ env = ConcEnv
    /\ SumIdle
    /\ StatsIdle

NextConc == \E r \in Reqs : Step(r)

SpecConc == InitConc /\ [][NextConc]_vars

\* computeSum applied to any input.
InitSum ==
    /\ h = NewHandler(FALSE)
    /\ HandleInit({}, [r \in Reqs |-> IdleBody])
    /\ env = AnyEnv
    /\ sumIn \in PemInputs
    /\ sumOut = SumNotCalled
    /\ StatsIdle

NextSum == ComputeSumCall

SpecSum == InitSum /\ [][NextSum]_vars

\* One call of Describe or of Collect on a channel of some capacity.
InitStats ==
    /\ h = NewHandler(FALSE)
    /\ HandleInit({}, [r \in Reqs |-> IdleBody])
    /\ env = AnyEnv
    /\ SumIdle
    /\ \E op \in {"Describe", "Collect"} : collector = NewCollector(op)
    /\ \E c \in 0..MaxCap : ch = [cap |-> c, buf |-> <<>>]
    /\ received = <<>>
    /\ receiver = "receiving"

NextStats ==
    \/ Describe
    \/ CollectStats
    \/ Collect
    \/ Receive
    \/ ReceiverStop

SpecStats == InitStats /\ [][NextStats]_vars

(***************************************************************************)
(* Vocabulary of the properties                                            *)
(***************************************************************************)
Called(r, op) == \E i \in 1..Len(calls[r]) : calls[r][i].op = op

CallOk(r, op) == \E i \in 1..Len(calls[r]) : calls[r][i].op = op /\ calls[r][i].ok

CallFailed(r, op) == \E i \in 1..Len(calls[r]) : calls[r][i].op = op /\ ~calls[r][i].ok

Count(r, op) == Cardinality({i \in 1..Len(calls[r]) : calls[r][i].op = op})

Done(r) == pcOf(r) = "done"

\* A success response reached the caller.
Succeeded(r) == w[r].status = "success"

\* Handle returned an error, which the api wrapper turns into a failure response.
Failed(r) == ret[r].returned /\ ret[r].err # "nil"

OCSPOps == {"ocspSigner.Sign", "ParseResponse", "GetDBAccessor", "InsertOCSP"}

SideEffectOps == {"Sign", "ocspSigner.Sign", "InsertOCSP"}

(***************************************************************************)
(* C1: with an OCSP signer configured, a run in which InsertOCSP returns   *)
(* an error ends in failure: Handle returns an error and no response       *)
(* (certificate, key, CSR) is ever written, although Signer.Sign           *)
(* succeeded earlier in that run.                                          *)
(***************************************************************************)
C1_InsertFailureFailsRequest ==
    \A r \in Reqs :
        (h.ocspSigner /\ CallFailed(r, "InsertOCSP")) =>
            /\ Done(r)
            /\ Failed(r)
            /\ w[r] = NoResponse
            /\ CallOk(r, "Sign")

C1_Witness ==
    \E r \in Reqs :
        /\ h.ocspSigner
        /\ CallFailed(r, "InsertOCSP")
        /\ CallOk(r, "Sign")
        /\ Done(r)

(***************************************************************************)
(* C2 as stated: with an OCSP signer configured, the expiration of a       *)
(* success result equals the parsed next-update of the OCSP response.      *)
(***************************************************************************)
C2_ExpirationIsNextUpdate ==
    \A r \in Reqs :
        (h.ocspSigner /\ Succeeded(r)) =>
            w[r].result.expiration = Unix(ParseResponse(frame[r].ocspResponse).NextUpdate)

(***************************************************************************)
(* C2 amended: with an OCSP signer configured and attestation and          *)
(* persistence successful, the expiration of the success result is still   *)
(* the bundle's own expiry in unix seconds, also when the next-update is   *)
(* earlier; the parsed next-update is only the Expiry of the OCSP record   *)
(* handed to InsertOCSP.                                                   *)
(***************************************************************************)
C2_ExpirationIsBundleExpiry ==
    \A r \in Reqs :
        (h.ocspSigner /\ Succeeded(r)) =>
            /\ CallOk(r, "ocspSigner.Sign")
            /\ CallOk(r, "InsertOCSP")
            /\ w[r].result.expiration = frame[r].bundle.Expires.sec
            /\ frame[r].ocspRecord.Expiry = frame[r].ocspResponse.NextUpdate

C2_Witness ==
    \E r \in Reqs :
        /\ h.ocspSigner
        /\ Succeeded(r)
        /\ frame[r].ocspResponse.NextUpdate.sec < frame[r].bundle.Expires.sec
        /\ w[r].result.expiration = frame[r].bundle.Expires.sec

(***************************************************************************)
(* C3: without an OCSP signer no run calls the OCSP signer, the OCSP       *)
(* response parser, GetDBAccessor or InsertOCSP, and every success result  *)
(* has expiration equal to the bundle's expiry in unix seconds.            *)
(***************************************************************************)
C3_SkipWhenUnconfigured ==
    \A r \in Reqs :
        ~h.ocspSigner =>
            /\ \A op \in OCSPOps : ~Called(r, op)
            /\ frame[r].ocspRecord = ZeroOCSPRecord
            /\ Succeeded(r) => w[r].result.expiration = frame[r].bundle.Expires.sec

C3_Witness ==
    \E r \in Reqs :
        /\ ~h.ocspSigner
        /\ Succeeded(r)
        /\ CallOk(r, "BundleFromPEMorDER")
        /\ w[r].result.expiration = frame[r].bundle.Expires.sec

(***************************************************************************)
(* C4: a success response is observed only if every step attempted in the  *)
(* run returned without error (Signer.Sign, and with an OCSP signer also   *)
(* OCSP Sign and InsertOCSP); every other finished run returned an error   *)
(* and wrote no response.  There is no partial success.                    *)
(***************************************************************************)
C4_NoPartialSuccess ==
    \A r \in Reqs :
        /\ Succeeded(r) =>
            /\ \A i \in 1..Len(calls[r]) : calls[r][i].ok
            /\ CallOk(r, "Sign")
            /\ h.ocspSigner => (CallOk(r, "ocspSigner.Sign") /\ CallOk(r, "InsertOCSP"))
            /\ ret[r].returned /\ ret[r].err = "nil"
        /\ (Done(r) /\ ~Succeeded(r)) => (Failed(r) /\ w[r] = NoResponse)
        /\ (\E i \in 1..Len(calls[r]) : ~calls[r][i].ok) => (Failed(r) /\ w[r] = NoResponse)

C4_Witness ==
    \E r \in Reqs :
        /\ Done(r)
        /\ CallOk(r, "Sign")
        /\ CallFailed(r, "ocspSigner.Sign")
        /\ Failed(r)

(***************************************************************************)
(* The failure kinds and the pipeline states of the design, read off the   *)
(* place where Handle returned and off its program counter.                *)
(***************************************************************************)
BadRequestErrs == {"NewBadRequest", "NewBadRequestString"}

FailureKind(r) ==
    CASE ret[r].at \in {"read", "unmarshal", "checkRequest", "reqSum", "certSum"} -> "MalformedInput"
      [] ret[r].at \in {"checkCA", "processRequest"} -> "PolicyViolation"
      [] ret[r].at = "sign" -> "SigningFailure"
      [] ret[r].at \in {"bundle", "checkBundle"} -> "BundlingFailure"
      [] ret[r].at \in {"ocspSign", "ocspParse"} -> "AttestationFailure"
      [] ret[r].at = "insertOCSP" -> "PersistenceFailure"
      [] OTHER -> "none"

Stage(r) ==
    IF Failed(r) THEN "FAILED"
    ELSE CASE pcOf(r) \in {"idle", "read", "unmarshal", "checkRequest"} -> "INIT"
           [] pcOf(r) \in {"checkCA", "processRequest"} -> "DECODED"
           [] pcOf(r) = "sign" -> "VALIDATED"
           [] pcOf(r) \in {"reqSum", "certSum"} -> "SIGNED"
           [] pcOf(r) \in {"bundle", "checkBundle"} -> "FINGERPRINTED"
           [] pcOf(r) \in {"ocspGate", "ocspSign", "ocspParse", "insertOCSP"} -> "BUNDLED"
           [] pcOf(r) = "respond" -> IF h.ocspSigner THEN "ATTESTED" ELSE "SKIPPED"
           [] OTHER -> "ASSEMBLED"

StageSuccessors ==
    {<<"INIT", "DECODED">>, <<"DECODED", "VALIDATED">>, <<"VALIDATED", "SIGNED">>,
     <<"SIGNED", "FINGERPRINTED">>, <<"FINGERPRINTED", "BUNDLED">>,
     <<"BUNDLED", "ATTESTED">>, <<"BUNDLED", "SKIPPED">>,
     <<"ATTESTED", "ASSEMBLED">>, <<"SKIPPED", "ASSEMBLED">>}

Ops(r) == [i \in 1..Len(calls[r]) |-> calls[r][i].op]

\* The calls of a successful run, in order.
SuccessOps(r) ==
    <<"ProcessRequest", "Sign", "computeSum(csr)", "computeSum(certBytes)",
      "BundleFromPEMorDER">>
    \o (IF h.ocspSigner
        THEN <<"ocspSigner.Sign", "ParseResponse", "GetDBAccessor", "InsertOCSP">>
        ELSE <<>>)
    \o <<IF Len(frame[r].newCert.Request.Hosts) = 0
         THEN "SendResponseWithMessage" ELSE "SendResponse">>

\* The body carries a request section with a CA section.
HasCASection(r) ==
    /\ body[r].read = "ok"
    /\ body[r].json = "valid"
    /\ body[r].doc.request = "present"
    /\ body[r].doc.ca

\* The hosts the body names: those of its request section, none without one.
HostsOf(r) == IF body[r].doc.request = "present" THEN body[r].doc.hosts ELSE <<>>

(***************************************************************************)
(* C5: a request whose request section carries a CA section is rejected    *)
(* with a policy-violation failure (the bad-request error of the CA guard) *)
(* before the CSR generator, the Signer or any later collaborator is       *)
(* invoked: no collaborator call occurs in such a run.                     *)
(***************************************************************************)
C5_CAGuard ==
    \A r \in Reqs :
        HasCASection(r) =>
            /\ calls[r] = <<>>
            /\ w[r] = NoResponse
            /\ pcOf(r) \in {"read", "unmarshal", "checkRequest", "checkCA", "done"}
            /\ Done(r) =>
                /\ Failed(r)
                /\ ret[r].at = "checkCA"
                /\ ret[r].err = "NewBadRequestString"
                /\ FailureKind(r) = "PolicyViolation"

C5_Witness ==
    \E r \in Reqs :
        /\ HasCASection(r)
        /\ Done(r)
        /\ Failed(r)
        /\ ret[r].at = "checkCA"

(***************************************************************************)
(* C6 as stated: no MalformedInput (bad-request) or PolicyViolation        *)
(* failure is returned after Signer.Sign has been invoked.                 *)
(***************************************************************************)
C6_ValidationFailuresBeforeSign ==
    \A r \in Reqs :
        (Failed(r) /\ (ret[r].err \in BadRequestErrs
                       \/ FailureKind(r) \in {"MalformedInput", "PolicyViolation"})) =>
            ~Called(r, "Sign")

(***************************************************************************)
(* C6 amended: the bad-request failures of decoding (unreadable body,      *)
(* invalid JSON, missing request section) and of the CA guard are returned *)
(* before any collaborator is called, and a failure of ProcessRequest      *)
(* before Signer.Sign is invoked; the only bad-request failures returned   *)
(* after Signer.Sign are those of computeSum on the CSR or on the          *)
(* certificate, returned after Signer.Sign succeeded and before the        *)
(* bundler, the OCSP signer or InsertOCSP is invoked.                      *)
(***************************************************************************)
C6_BadRequestSites ==
    \A r \in Reqs :
        /\ (Failed(r) /\ ret[r].err \in BadRequestErrs) =>
            \/ /\ ret[r].at \in {"read", "unmarshal", "checkRequest", "checkCA"}
               /\ calls[r] = <<>>
            \/ /\ ret[r].at \in {"reqSum", "certSum"}
               /\ CallOk(r, "Sign")
               /\ CallFailed(r, "computeSum(csr)") \/ CallFailed(r, "computeSum(certBytes)")
               /\ \A op \in OCSPOps \cup {"BundleFromPEMorDER"} : ~Called(r, op)
        /\ (Failed(r) /\ ret[r].at = "processRequest") => ~Called(r, "Sign")

C6_Witness ==
    \E r \in Reqs :
        /\ Failed(r)
        /\ ret[r].err = "NewBadRequest"
        /\ ret[r].at = "certSum"
        /\ CallOk(r, "Sign")

(***************************************************************************)
(* C7: within one request Signer.Sign, the OCSP signer's Sign and          *)
(* InsertOCSP are each invoked at most once, whatever they return, and     *)
(* Signer.Sign exactly once in every run that passed validation and CSR    *)
(* generation.                                                             *)
(***************************************************************************)
C7_NoRetry ==
    \A r \in Reqs :
        /\ \A op \in SideEffectOps : Count(r, op) <= 1
        /\ (CallOk(r, "ProcessRequest") /\ pcOf(r) # "sign") => Count(r, "Sign") = 1
        /\ ~CallOk(r, "ProcessRequest") => Count(r, "Sign") = 0

C7_Witness ==
    \E r \in Reqs :
        /\ Done(r)
        /\ CallFailed(r, "Sign")
        /\ Count(r, "Sign") = 1

(***************************************************************************)
(* C8: a run moves through INIT, DECODED, VALIDATED, SIGNED,               *)
(* FINGERPRINTED, BUNDLED, then ATTESTED or SKIPPED, then ASSEMBLED, one   *)
(* state at a time and in this order, or to FAILED; from FAILED and from   *)
(* ASSEMBLED the run takes no further step and makes no further call; a    *)
(* successful run made exactly the calls of these states in their order.   *)
(***************************************************************************)
C8_StageMove(r) ==
    /\ Stage(r)' # Stage(r) =>
        \/ <<Stage(r), Stage(r)'>> \in StageSuccessors
        \/ Stage(r)' = "FAILED" /\ Stage(r) # "ASSEMBLED"
    /\ Stage(r) \in {"FAILED", "ASSEMBLED"} =>
        /\ frame'[r] = frame[r]
        /\ calls'[r] = calls[r]
        /\ w'[r] = w[r]
        /\ ret'[r] = ret[r]
    /\ Succeeded(r)' => (Stage(r)' = "ASSEMBLED" /\ Ops(r)' = SuccessOps(r)')

C8_PipelineOrder == [][\A r \in Reqs : C8_StageMove(r)]_vars

C8_Witness ==
    \E r \in Reqs :
        /\ Stage(r) = "ASSEMBLED"
        /\ h.ocspSigner
        /\ Ops(r) = SuccessOps(r)

(***************************************************************************)
(* C9: a request that reaches response assembly gets a success response;   *)
(* with an empty host list the response carries CSRNoHostMessage and the   *)
(* policy-error code together with the full result, with a non-empty host  *)
(* list it carries no message and no error code.                           *)
(***************************************************************************)
C9_Advisory ==
    \A r \in Reqs :
        /\ (Done(r) /\ ret[r].at = "respond") => Succeeded(r)
        /\ Succeeded(r) =>
            /\ w[r].result = Result(frame[r])
            /\ w[r].result.certificate = frame[r].certBytes
            /\ IF HostsOf(r) = <<>>
               THEN /\ w[r].message = CSRNoHostMessage
                    /\ w[r].code = PolicyErrorInvalidRequest
               ELSE /\ w[r].message = ""
                    /\ w[r].code = NoErrorCode

C9_Witness ==
    \E r \in Reqs :
        /\ Succeeded(r)
        /\ HostsOf(r) = <<>>
        /\ body[r].doc.request = "present"
        /\ w[r].message = CSRNoHostMessage

(***************************************************************************)
(* C10 as stated: a run whose context is cancelled before Signer.Sign is   *)
(* invoked calls none of Signer.Sign, OCSP Sign and InsertOCSP and ends    *)
(* in failure.                                                             *)
(***************************************************************************)
C10_CancelAborts ==
    \A r \in Reqs :
        (ctx[r].cancelled /\ ctx[r].beforeSign) =>
            /\ \A op \in SideEffectOps : ~Called(r, op)
            /\ Done(r) => Failed(r)

(***************************************************************************)
(* C10 amended: Handle never reads the request context, so cancelling it   *)
(* before Signer.Sign does not abort the pipeline: in such a run           *)
(* Signer.Sign is still invoked exactly when decoding, the CA guard and    *)
(* CSR generation succeeded, and the run fails only where a step of its    *)
(* own fails, succeeding otherwise.                                        *)
(***************************************************************************)
C10_CancelIgnored ==
    \A r \in Reqs :
        (ctx[r].cancelled /\ ctx[r].beforeSign /\ Done(r)) =>
            /\ Called(r, "Sign") <=> CallOk(r, "ProcessRequest")
            /\ Failed(r) =>
                \/ \E i \in 1..Len(calls[r]) : ~calls[r][i].ok
                \/ ret[r].at \in {"read", "unmarshal", "checkRequest", "checkCA", "checkBundle"}
            /\ ~Failed(r) => Succeeded(r)

C10_Witness ==
    \E r \in Reqs :
        /\ ctx[r].cancelled
        /\ ctx[r].beforeSign
        /\ CallOk(r, "Sign")
        /\ Succeeded(r)

(***************************************************************************)
(* C11: a body that supplies no request section, the key absent or its     *)
(* value null, is rejected with a bad-request failure at the test for a    *)
(* missing request section, before the CSR generator or the Signer is      *)
(* invoked.                                                                *)
(***************************************************************************)
NoRequestSection(r) ==
    /\ body[r].read = "ok"
    /\ body[r].json = "valid"
    /\ body[r].doc.request \in {"absent", "null"}

C11_MissingRequestRejected ==
    \A r \in Reqs :
        NoRequestSection(r) =>
            /\ ~Called(r, "ProcessRequest")
            /\ ~Called(r, "Sign")
            /\ Done(r) => (Failed(r) /\ ret[r].at = "checkRequest"
                           /\ ret[r].err \in BadRequestErrs)

(***************************************************************************)
(* C12: when the bundler returns no error but a nil bundle the request     *)
(* fails at the nil test with a bundling failure: no OCSP call, no         *)
(* InsertOCSP and no response follow, and no statement that reads the      *)
(* bundle is reached.                                                      *)
(***************************************************************************)
C12_NilBundleFails ==
    \A r \in Reqs :
        (CallOk(r, "BundleFromPEMorDER") /\ frame[r].bundle.isNil) =>
            /\ pcOf(r) \in {"checkBundle", "done"}
            /\ \A op \in OCSPOps : ~Called(r, op)
            /\ ~Called(r, "SendResponse") /\ ~Called(r, "SendResponseWithMessage")
            /\ w[r] = NoResponse
            /\ frame[r].ocspReq.Certificate = ZeroCert
            /\ Done(r) => (Failed(r) /\ ret[r].at = "checkBundle" /\ ret[r].err = "fmt.Errorf"
                           /\ FailureKind(r) = "BundlingFailure")

C12_Witness ==
    \E r \in Reqs :
        /\ CallOk(r, "BundleFromPEMorDER")
        /\ frame[r].bundle.isNil
        /\ Done(r)
        /\ ret[r].at = "checkBundle"

(***************************************************************************)
(* C13: computeSum fails with a bad-request error and returns no digests   *)
(* for every input without a PEM block and for every input whose first     *)
(* PEM block is neither a CERTIFICATE REQUEST nor a CERTIFICATE; it        *)
(* returns a digest triple only for a first block of one of these two      *)
(* types whose payload parses as that type.                                *)
(***************************************************************************)
IsPemBlock(x) == x.type # "none"

PemBlocksOf(in) == SelectSeq(in, IsPemBlock)

C13_TypeRejection ==
    sumOut.called =>
        LET blocks == PemBlocksOf(sumIn)
        IN  /\ (blocks = <<>> \/ Head(blocks).type \notin {"CERTIFICATE REQUEST", "CERTIFICATE"}) =>
                    (sumOut.err = "BadRequest" /\ sumOut.sum = ZeroSum)
            /\ sumOut.err # "nil" => sumOut.sum = ZeroSum
            /\ sumOut.err = "nil" =>
                /\ blocks # <<>>
                /\ \/ Head(blocks).type = "CERTIFICATE REQUEST" /\ Head(blocks).asn1 = "csr"
                   \/ Head(blocks).type = "CERTIFICATE" /\ Head(blocks).asn1 = "cert"
                /\ Len(sumOut.sum.MD5) = 2
                /\ Len(sumOut.sum.SHA1) = 2
                /\ Len(sumOut.sum.SHA256) = 2

C13_Witness ==
    /\ sumOut.called
    /\ Len(sumIn) = 2
    /\ sumIn[1].type = "PRIVATE KEY"
    /\ sumIn[2].type = "CERTIFICATE"
    /\ sumIn[2].asn1 = "cert"
    /\ sumOut.err = "BadRequest"

(***************************************************************************)
(* C14: with several runs of Handle on one Handler, in every interleaving, *)
(* no step writes the Handler, a step of one run leaves the locals, the    *)
(* call log, the response and the return value of every other run alone,   *)
(* and the response of a run is the one its own body and the values        *)
(* returned to its own calls determine.                                    *)
(***************************************************************************)
RunState(r) == <<frame[r], calls[r], w[r], ret[r], body[r], ctx[r]>>

\* The response that the body of r and the values returned to r determine.
OwnResponse(r) ==
    Response([frame[r] EXCEPT !.newCert = Unmarshal(body[r].doc, newCertRequest)])

C14_Step ==
    /\ h' = h
    /\ \A r, q \in Reqs : (r # q /\ RunState(r)' # RunState(r)) => RunState(q)' = RunState(q)
    /\ \A r \in Reqs :
        /\ Succeeded(r)' =>
            /\ w'[r] = OwnResponse(r)'
            /\ \A i \in 1..Len(calls'[r]) : calls'[r][i].ok
        /\ Failed(r)' =>
            /\ w'[r] = NoResponse
            /\ \E i \in 1..Len(calls'[r]) : ~calls'[r][i].ok

C14_RequestsIndependent == [][C14_Step]_vars

C14_Witness ==
    /\ \A r \in Reqs : Done(r)
    /\ Succeeded("r1")
    /\ Succeeded("r2")
    /\ w["r1"].result.serial_number # w["r2"].result.serial_number
    /\ w["r1"].message # w["r2"].message
    /\ h.ocspSigner

(***************************************************************************)
(* C15: the fingerprints of the CSR and of the certificate are both        *)
(* computed after Signer.Sign succeeded and before the response is         *)
(* assembled; no success response carries a missing digest triple, and a   *)
(* failure of either fingerprint fails the request.                        *)
(***************************************************************************)
IndexOf(r, op) == CHOOSE i \in 1..Len(calls[r]) : calls[r][i].op = op

SumOps == {"computeSum(csr)", "computeSum(certBytes)"}

SendOps == {"SendResponse", "SendResponseWithMessage"}

C15_BothFingerprints ==
    \A r \in Reqs :
        /\ \A op \in SumOps :
            /\ Called(r, op) => (CallOk(r, "Sign") /\ IndexOf(r, "Sign") < IndexOf(r, op))
            /\ CallFailed(r, op) => (Done(r) /\ Failed(r) /\ w[r] = NoResponse)
        /\ \A send \in SendOps : Called(r, send) =>
            \A op \in SumOps : CallOk(r, op) /\ IndexOf(r, op) < IndexOf(r, send)
        /\ Succeeded(r) =>
            /\ \E send \in SendOps : Called(r, send)
            /\ w[r].result.sums.certificate_request # ZeroSum
            /\ w[r].result.sums.certificate # ZeroSum
            /\ \A d \in {w[r].result.sums.certificate_request, w[r].result.sums.certificate} :
                    d.MD5 # <<>> /\ d.SHA1 # <<>> /\ d.SHA256 # <<>>

C15_Witness ==
    \E r \in Reqs :
        /\ Succeeded(r)
        /\ CallOk(r, "computeSum(csr)")
        /\ CallOk(r, "computeSum(certBytes)")
        /\ w[r].result.sums.certificate # ZeroSum

(***************************************************************************)
(* C17: with an OCSP signer the attester runs OCSP Sign, then the parse,   *)
(* then InsertOCSP, and only after the bundler returned a bundle;          *)
(* InsertOCSP is invoked only if OCSP Sign and the parse both succeeded    *)
(* in the same run; an error of OCSP Sign or of the parse fails the        *)
(* request with no InsertOCSP call and no response.                        *)
(***************************************************************************)
C17_AttesterOrder ==
    \A r \in Reqs :
        /\ Called(r, "ocspSigner.Sign") =>
            /\ h.ocspSigner
            /\ CallOk(r, "BundleFromPEMorDER")
            /\ ~frame[r].bundle.isNil
            /\ IndexOf(r, "BundleFromPEMorDER") < IndexOf(r, "ocspSigner.Sign")
        /\ Called(r, "ParseResponse") =>
            /\ CallOk(r, "ocspSigner.Sign")
            /\ IndexOf(r, "ocspSigner.Sign") < IndexOf(r, "ParseResponse")
        /\ Called(r, "InsertOCSP") =>
            /\ CallOk(r, "ocspSigner.Sign")
            /\ CallOk(r, "ParseResponse")
            /\ IndexOf(r, "ParseResponse") < IndexOf(r, "InsertOCSP")
        /\ (CallFailed(r, "ocspSigner.Sign") \/ CallFailed(r, "ParseResponse")) =>
            /\ Done(r)
            /\ Failed(r)
            /\ FailureKind(r) = "AttestationFailure"
            /\ ~Called(r, "InsertOCSP")
            /\ w[r] = NoResponse

C17_Witness ==
    \E r \in Reqs :
        /\ CallOk(r, "ocspSigner.Sign")
        /\ CallFailed(r, "ParseResponse")
        /\ Done(r)
        /\ ~Called(r, "InsertOCSP")

(***************************************************************************)
(* C18: the record handed to InsertOCSP describes the certificate of the   *)
(* same run: its Serial is the decimal serial number of the bundle's leaf  *)
(* (the serial_number of the response), its AKI the hex of the leaf's      *)
(* authority key identifier, its Body the bytes the OCSP signer returned   *)
(* for the "good" request on that leaf, its Expiry the next-update parsed  *)
(* from those bytes.                                                       *)
(***************************************************************************)
DigitValue(c) == CHOOSE d \in 0..15 : LowerHexDigits[d + 1] = c

RECURSIVE DecimalValue(_)
DecimalValue(digits) ==
    IF digits = <<>> THEN 0
    ELSE 10 * DecimalValue(SubSeq(digits, 1, Len(digits) - 1)) + DigitValue(digits[Len(digits)])

RECURSIVE HexBytes(_)
HexBytes(digits) ==
    IF Len(digits) < 2 THEN <<>>
    ELSE <<16 * DigitValue(digits[1]) + DigitValue(digits[2])>>
         \o HexBytes(SubSeq(digits, 3, Len(digits)))

C18_RecordDescribesCertificate ==
    \A r \in Reqs :
        Called(r, "InsertOCSP") =>
            LET rec == frame[r].ocspRecord
                cert == frame[r].bundle.Cert
            IN  /\ rec.Serial # <<>>
                /\ DecimalValue(rec.Serial) = cert.SerialNumber
                /\ Len(rec.AKI) = 2 * Len(cert.AuthorityKeyId)
                /\ HexBytes(rec.AKI) = cert.AuthorityKeyId
                /\ frame[r].ocspReq = [Certificate |-> cert, Status |-> "good"]
                /\ CallOk(r, "ocspSigner.Sign")
                /\ rec.Body = frame[r].ocspResponse
                /\ rec.Body.wellformed
                /\ rec.Expiry = rec.Body.NextUpdate
                /\ Succeeded(r) => w[r].result.serial_number = rec.Serial

C18_Witness ==
    \E r \in Reqs :
        /\ CallOk(r, "InsertOCSP")
        /\ Succeeded(r)
        /\ frame[r].ocspRecord.Expiry # frame[r].bundle.Expires
        /\ frame[r].ocspRecord.Serial = w[r].result.serial_number

(***************************************************************************)
(* C19: the bundle flag of the request has no effect: the bundler is       *)
(* invoked after every successful signing and fingerprinting, with the     *)
(* certificate, no key, the Optimal flavor and no password, whatever the   *)
(* flag, and the calls and the response of a run are those of the same     *)
(* run with the flag inverted.                                             *)
(***************************************************************************)
FlagInverted(f) == [f EXCEPT !.newCert.Bundle = ~@]

C19_BundleFlagIgnored ==
    \A r \in Reqs :
        /\ (CallOk(r, "computeSum(certBytes)") /\ pcOf(r) # "bundle") =>
                Called(r, "BundleFromPEMorDER")
        /\ Called(r, "BundleFromPEMorDER") =>
            /\ CallOk(r, "Sign")
            /\ CallOk(r, "computeSum(csr)")
            /\ CallOk(r, "computeSum(certBytes)")
            /\ frame[r].bundleArgs =
                    [certsRaw |-> frame[r].certBytes, keyPEM |-> <<>>,
                     flavor |-> "Optimal", password |-> ""]
        /\ Succeeded(r) =>
            /\ Ops(r) = SuccessOps(r)
            /\ w[r] = Response(FlagInverted(frame[r]))

C19_Witness ==
    \E r \in Reqs :
        /\ body[r].doc.bundle = FALSE
        /\ body[r].json = "valid"
        /\ ~frame[r].newCert.Bundle
        /\ CallOk(r, "BundleFromPEMorDER")
        /\ Succeeded(r)

(***************************************************************************)
(* C20: Describe sends exactly the eight descriptors and Collect reads the *)
(* statistics exactly once and then sends exactly eight metrics, one per   *)
(* descriptor and in the order of Describe, with the values of the one     *)
(* snapshot.  Each send blocks until the channel accepts it: the receiver  *)
(* takes it, or a buffered channel has room for it.  A call therefore      *)
(* completes only once all eight are accepted, which on an unbuffered      *)
(* channel means the receiver took all eight and on a channel of capacity  *)
(* c that it took at least eight minus c.                                  *)
(***************************************************************************)
\* What the call under way has to send, in order.
Expected ==
    IF collector.op = "Describe" THEN DescOrder ELSE Metrics(collector.stats)

\* What the channel has accepted so far, oldest first.
Accepted == received \o ch.buf

SnapshotValues(st) ==
    <<st.MaxOpenConnections, st.OpenConnections, st.InUse, st.Idle, st.WaitCount,
      st.WaitDuration \div 1000, st.MaxIdleClosed, st.MaxLifetimeClosed>>

ValueTypes ==
    <<"GaugeValue", "GaugeValue", "GaugeValue", "GaugeValue",
      "CounterValue", "CounterValue", "CounterValue", "CounterValue">>

C20_SendsInOrder ==
    /\ Len(DescOrder) = 8
    /\ Cardinality({DescOrder[i] : i \in 1..8}) = 8
    /\ collector.sent <= 8
    /\ Accepted = SubSeq(Expected, 1, collector.sent)
    /\ collector.op = "Describe" => collector.reads = 0
    /\ collector.op = "Collect" =>
            /\ collector.reads = (IF collector.pc = "stats" THEN 0 ELSE 1)
            /\ collector.pc = "stats" => collector.sent = 0
            /\ collector.pc # "stats" =>
                /\ collector.stats \in DBStatsValues
                /\ \A i \in 1..collector.sent :
                        /\ Accepted[i].desc = DescOrder[i]
                        /\ Accepted[i].valueType = ValueTypes[i]
                        /\ Accepted[i].value.whole = SnapshotValues(collector.stats)[i]

C20_Done == collector.pc = "done"

C20_CompletesWhenAccepted ==
    /\ C20_SendsInOrder
    /\ C20_Done =>
            /\ collector.sent = 8
            /\ Len(Accepted) = 8
            /\ Len(ch.buf) <= ch.cap
            /\ Len(received) >= 8 - ch.cap
            /\ ch.cap = 0 => Len(received) = 8

\* The statement with every send waiting for the receiver, whatever the
\* capacity of the channel.
C20_CompletesOnlyWhenDrained ==
    /\ C20_SendsInOrder
    /\ C20_Done => Len(received) = 8

C20_Witness ==
    /\ collector.op = "Collect"
    /\ C20_Done
    /\ collector.reads = 1
    /\ ch.cap > 0
    /\ receiver = "stopped"
    /\ Len(received) = 8 - ch.cap
    /\ Len(ch.buf) = ch.cap

====
